---------------------------- MODULE Spec2Model ----------------------------
(***************************************************************************)
(* A model of the two allocators of arceos:                                *)
(*   modules/bump_allocator/src/lib.rs  EarlyAllocator<PAGE_SIZE>          *)
(*   labs/lab_allocator/src/lib.rs      LabByteAllocator / Heap            *)
(*                                                                         *)
(* usize is a WordBits-bit unsigned integer.  Rust's +, - and * on usize   *)
(* panic on overflow when the build has overflow checks (the dev profile)  *)
(* and wrap modulo 2^WordBits when it has not (the release profile); the   *)
(* build is fixed for a run and is the variable overflow_checks.           *)
(***************************************************************************)
EXTENDS Integers, Naturals, Sequences, FiniteSets, TLC

VARIABLES
    \* EarlyAllocator (bump_allocator/src/lib.rs:21-26)
    start, end, b_pos, p_pos,
    \* the build profile: TRUE = arithmetic overflow panics, FALSE = it wraps
    overflow_checks,
    \* "new" after EarlyAllocator::new, "ready" after init, "panicked" after a panic
    e_state,
    \* the last EarlyAllocator call: its name, its result and the address it returned,
    \* and for alloc and alloc_pages its two arguments
    e_last,
    \* the history kept of the calls: the first grant_cap regions of non-zero size
    \* granted by a successful alloc or alloc_pages, as <<address, size>>
    grant_cap, granted,
    \* LabByteAllocator.inner (lab_allocator/src/lib.rs:21-23): None, or the Heap
    \* with its eight slabs and its buddy allocator (lib.rs:86-96)
    inner,
    \* "running", or "panicked" after a failed assert! or an unwrap of None
    h_state,
    \* the last LabByteAllocator call: its name, arguments, result, returned
    \* address, and used_bytes() of the heap before it
    h_last,
    \* the allocations granted and not yet given back: what dealloc may be given
    live,
    \* the regions given to the Heap by init and add_memory
    owned,
    \* the number of LabByteAllocator calls made
    h_ops,
    \* a layout given to layout_to_allocator and the sub-allocator it answered
    q_size, q_align, q_class

evars == <<start, end, b_pos, p_pos, overflow_checks, e_state, e_last, grant_cap, granted>>
hvars == <<inner, h_state, h_last, live, owned, h_ops>>
qvars == <<q_size, q_align, q_class>>

vars == <<evars, hvars, qvars>>

----------------------------------------------------------------------------
\* Bounds of the model.

\* usize has WordBits bits.
WordBits == 5
\* PAGE_SIZE = 2^PageBits (the const generic of EarlyAllocator).
PageBits == 2
\* Layout sizes 0..MaxSize are tried, besides the largest size a Layout allows.
MaxSize == 5
\* Layout alignments 2^0..2^MaxAlignBits are tried.
MaxAlignBits == 2
\* Page counts 0..MaxPages are tried, besides one whose byte size overflows usize.
MaxPages == 3
\* init is given regions of 1..MaxRegionPages pages.
MaxRegionPages == 2

----------------------------------------------------------------------------
\* usize arithmetic.

UsizeMod == 2 ^ WordBits
Usize == 0 .. (UsizeMod - 1)
\* isize::MAX
IsizeMax == 2 ^ (WordBits - 1) - 1

Wrap(x) == x % UsizeMod
Overflows(x) == x < 0 \/ x >= UsizeMod

\* x & !(align - 1), align a power of two
MaskLow(x, align) == x - (x % align)
\* The mathematical round-up of x to a multiple of align.
AlignUp(x, align) == ((x + align - 1) \div align) * align

PAGE_SIZE == 2 ^ PageBits

\* core::alloc::Layout: align is a power of two and size, rounded up to align,
\* does not exceed isize::MAX.
MaxLayoutSize(align) == IsizeMax - (align - 1)
Aligns == { 2 ^ k : k \in 0 .. MaxAlignBits }
Layouts ==
    { l \in [size : (0 .. MaxSize) \cup { MaxLayoutSize(a) : a \in Aligns }, align : Aligns] :
        l.size <= MaxLayoutSize(l.align) }

\* The page counts tried: small ones, and the first whose byte size does not fit usize.
PageCounts == (0 .. MaxPages) \cup { UsizeMod \div PAGE_SIZE + 1 }

\* The regions init is given: low and high-half addresses, start + size < 2^WordBits.
RegionStarts == { PAGE_SIZE, 2 ^ (WordBits - 1) + PAGE_SIZE }
Regions ==
    { r \in [start : RegionStarts, size : { k * PAGE_SIZE : k \in 1 .. MaxRegionPages }] :
        r.start + r.size < UsizeMod }

NoCall == [op |-> "none", res |-> "none", ret |-> 0, a1 |-> 0, a2 |-> 0]
Call(op, res, ret, a1, a2) == [op |-> op, res |-> res, ret |-> ret, a1 |-> a1, a2 |-> a2]

----------------------------------------------------------------------------
\* EarlyAllocator

\* EarlyAllocator::new
EarlyAllocator_new ==
    /\ start = 0
    /\ end = 0
    /\ b_pos = 0
    /\ p_pos = 0
    /\ e_state = "new"
    /\ e_last = NoCall
    /\ granted = {}

\* The addresses of the region [addr, addr + size).
Region(addr, size) == addr .. (addr + size - 1)

\* The history after a grant of [addr, addr + size).
Remember(addr, size) ==
    IF size = 0 \/ Cardinality(granted) >= grant_cap
    THEN granted
    ELSE granted \cup {<<addr, size>>}

\* A panic: the call does not return and the allocator is not used again.
EarlyPanic(op, a1, a2) ==
    /\ e_state' = "panicked"
    /\ e_last' = Call(op, "panic", 0, a1, a2)
    /\ UNCHANGED <<start, end, b_pos, p_pos, overflow_checks, grant_cap, granted, hvars, qvars>>

\* BaseAllocator::init
EarlyAllocator_init(s, size) ==
    /\ e_state = "new"
    /\ start' = s
    /\ end' = s + size
    /\ b_pos' = s
    /\ p_pos' = s + size
    /\ e_state' = "ready"
    /\ e_last' = Call("init", "Ok", 0, s, size)
    /\ UNCHANGED <<overflow_checks, grant_cap, granted, hvars, qvars>>

add_memory_extends(s, size) ==
    /\ e_state # "panicked"
    /\ end' = Wrap(end + size)
    /\ e_last' = Call("add_memory", "Ok", 0, 0, 0)
    /\ UNCHANGED <<start, b_pos, p_pos, overflow_checks, grant_cap, granted, e_state, hvars, qvars>>

\* BaseAllocator::add_memory
EarlyAllocator_add_memory(s, size) ==
    /\ e_state # "panicked"
    /\ e_last' = Call("add_memory", "NoMemory", 0, 0, 0)
    /\ UNCHANGED <<start, end, b_pos, p_pos, overflow_checks, grant_cap, granted, e_state, hvars, qvars>>

\* The arithmetic of alloc: start + layout.align() - 1, masked, then + layout.size().
\* step1 = start + align, step2 = step1 - 1, each wrapped when it is not checked.
AllocArith(b, size, align) ==
    LET step1 == b + align
        step2 == Wrap(step1) - 1
        aligned_start == MaskLow(Wrap(step2), align)
        sum == aligned_start + size
    IN  [ aligned_start |-> aligned_start,
          sum |-> Wrap(sum),
          overflow |-> Overflows(step1) \/ Overflows(step2) \/ Overflows(sum),
          assert_ok |-> aligned_start >= b ]

\* alloc that keeps the aligned cursor when the request does not fit.
alloc_consumes_padding(size, align) ==
    LET a == AllocArith(b_pos, size, align) IN
    /\ e_state = "ready"
    /\ IF (overflow_checks /\ a.overflow) \/ ~a.assert_ok
       THEN EarlyPanic("alloc", size, align)
       ELSE IF a.sum <= p_pos
       THEN /\ b_pos' = a.sum
            /\ e_last' = Call("alloc", "Ok", a.aligned_start, size, align)
            /\ granted' = Remember(a.aligned_start, size)
            /\ UNCHANGED <<start, end, p_pos, overflow_checks, grant_cap, e_state, hvars, qvars>>
       ELSE /\ b_pos' = a.aligned_start
            /\ e_last' = Call("alloc", "NoMemory", 0, size, align)
            /\ UNCHANGED <<start, end, p_pos, overflow_checks, grant_cap, granted, e_state, hvars, qvars>>

\* ByteAllocator::alloc
EarlyAllocator_alloc(size, align) ==
    LET a == AllocArith(b_pos, size, align) IN
    /\ e_state = "ready"
    /\ IF (overflow_checks /\ a.overflow) \/ ~a.assert_ok
       THEN EarlyPanic("alloc", size, align)
       ELSE IF a.sum <= p_pos
       THEN /\ b_pos' = a.sum
            /\ e_last' = Call("alloc", "Ok", a.aligned_start, size, align)
            /\ granted' = Remember(a.aligned_start, size)
            /\ UNCHANGED <<start, end, p_pos, overflow_checks, grant_cap, e_state, hvars, qvars>>
       ELSE /\ e_last' = Call("alloc", "NoMemory", 0, size, align)
            /\ UNCHANGED <<start, end, b_pos, p_pos, overflow_checks, grant_cap, granted, e_state, hvars, qvars>>

\* dealloc that takes the byte cursor back when given the last region granted.
dealloc_rewinds(pos, size, align) ==
    /\ e_state # "panicked"
    /\ e_last' = Call("dealloc", "Ok", 0, 0, 0)
    /\ b_pos' = IF pos + size = b_pos THEN pos ELSE b_pos
    /\ UNCHANGED <<start, end, p_pos, overflow_checks, grant_cap, granted, e_state, hvars, qvars>>

\* ByteAllocator::dealloc
EarlyAllocator_dealloc(pos, size, align) ==
    /\ e_state # "panicked"
    /\ e_last' = Call("dealloc", "Ok", 0, 0, 0)
    /\ UNCHANGED <<start, end, b_pos, p_pos, overflow_checks, grant_cap, granted, e_state, hvars, qvars>>

\* The arithmetic of alloc_pages: num_pages * PAGE_SIZE, then p_pos - size.
AllocPagesArith(p, num_pages) ==
    LET product == num_pages * PAGE_SIZE
        size == Wrap(product)
        diff == p - size
    IN  [ aligned_start |-> Wrap(diff),
          overflow |-> Overflows(product) \/ Overflows(diff) ]

\* PageAllocator::alloc_pages
EarlyAllocator_alloc_pages(num_pages, align_pow2) ==
    LET a == AllocPagesArith(p_pos, num_pages) IN
    /\ e_state = "ready"
    /\ IF overflow_checks /\ a.overflow
       THEN EarlyPanic("alloc_pages", num_pages, align_pow2)
       ELSE IF a.aligned_start >= b_pos
       THEN /\ p_pos' = a.aligned_start
            /\ e_last' = Call("alloc_pages", "Ok", a.aligned_start, num_pages, align_pow2)
            /\ granted' = Remember(a.aligned_start, num_pages * PAGE_SIZE)
            /\ UNCHANGED <<start, end, b_pos, overflow_checks, grant_cap, e_state, hvars, qvars>>
       ELSE /\ e_last' = Call("alloc_pages", "NoMemory", 0, num_pages, align_pow2)
            /\ UNCHANGED <<start, end, b_pos, p_pos, overflow_checks, grant_cap, granted, e_state, hvars, qvars>>

\* PageAllocator::dealloc_pages
EarlyAllocator_dealloc_pages(pos, num_pages) ==
    /\ e_state # "panicked"
    /\ e_last' = Call("dealloc_pages", "Ok", 0, 0, 0)
    /\ UNCHANGED <<start, end, b_pos, p_pos, overflow_checks, grant_cap, granted, e_state, hvars, qvars>>

\* ByteAllocator::total_bytes, used_bytes, available_bytes: the value a build
\* without overflow checks returns, and whether a subtraction or addition overflows
\* (a panic in a build with overflow checks).
EarlyAllocator_total_bytes == Wrap(end - start)
EarlyAllocator_used_bytes == Wrap(Wrap(b_pos - start) + Wrap(end - p_pos))
EarlyAllocator_available_bytes == Wrap(p_pos - b_pos)
\* PageAllocator::total_pages, used_pages, available_pages
EarlyAllocator_total_pages == Wrap(end - start) \div PAGE_SIZE
EarlyAllocator_used_pages == Wrap(end - p_pos) \div PAGE_SIZE
EarlyAllocator_available_pages == Wrap(p_pos - b_pos) \div PAGE_SIZE
EarlyStatsOverflow ==
    \/ Overflows(end - start)
    \/ Overflows(b_pos - start)
    \/ Overflows(end - p_pos)
    \/ Overflows(Wrap(b_pos - start) + Wrap(end - p_pos))
    \/ Overflows(p_pos - b_pos)

\* The addresses dealloc and dealloc_pages are given: the one the last call
\* returned, the cursors and the ends of the address space.
Positions == { e_last.ret, start, b_pos, p_pos, 0, UsizeMod - 1 }

----------------------------------------------------------------------------
\* Powers of two.

Max(a, b) == IF a >= b THEN a ELSE b
Min(a, b) == IF a <= b THEN a ELSE b

\* usize::trailing_zeros of a power of two
TrailingZeros(p) == CHOOSE k \in 0 .. 63 : 2 ^ k = p
\* usize::next_power_of_two: the smallest power of two >= n (1 for n = 0)
NextPowerOfTwo(n) == 2 ^ (CHOOSE k \in 0 .. 63 : 2 ^ k >= n /\ (k = 0 \/ 2 ^ (k - 1) < n))
\* prev_power_of_two: the largest power of two <= n, n >= 1
PrevPowerOfTwo(n) == 2 ^ (CHOOSE k \in 0 .. 63 : 2 ^ k <= n /\ 2 ^ (k + 1) > n)
\* x & (!x + 1): the lowest set bit of x, x >= 1
LowBit(x) == 2 ^ (CHOOSE k \in 0 .. 63 : x % (2 ^ k) = 0 /\ x % (2 ^ (k + 1)) # 0)

Push(list, x) == <<x>> \o list
RemoveAt(list, i) == SubSeq(list, 1, i - 1) \o SubSeq(list, i + 1, Len(list))

----------------------------------------------------------------------------
\* buddy_system_allocator::Heap<32>, the buddy tier (lib.rs:95): free_list[k] is the
\* list of the free blocks of 2^k bytes, last pushed first.

BuddyOrder == 32
UsizeBytes == 8

Buddy_new ==
    [ free_list |-> [k \in 0 .. (BuddyOrder - 1) |-> <<>>],
      user |-> 0, allocated |-> 0, total |-> 0 ]

RECURSIVE BuddyAddLoop(_, _, _)
BuddyAddLoop(b, current_start, e) ==
    IF current_start + UsizeBytes <= e
    THEN LET size0 == Min(LowBit(current_start), PrevPowerOfTwo(e - current_start))
             order == Min(TrailingZeros(size0), BuddyOrder - 1)
             size == 2 ^ order
         IN  BuddyAddLoop(
                 [b EXCEPT !.free_list[order] = Push(@, current_start),
                           !.total = @ + size],
                 current_start + size, e)
    ELSE b

\* Heap::add_to_heap(start, end); init(start, size) is add_to_heap(start, start + size)
Buddy_add_to_heap(b, s, e) ==
    BuddyAddLoop(b, AlignUp(s, UsizeBytes), MaskLow(e, UsizeBytes))

\* The block size the buddy tier reserves for a layout
BuddySize(size, align) == Max(NextPowerOfTwo(size), Max(align, UsizeBytes))

\* Split blocks from class i down to class `class`: each split pops a block of
\* 2^j bytes and pushes its two halves, the lower one last.
RECURSIVE BuddySplit(_, _, _)
BuddySplit(free_list, j, class) ==
    IF j <= class
    THEN free_list
    ELSE LET block == Head(free_list[j])
         IN  BuddySplit(
                 [free_list EXCEPT ![j] = Tail(@),
                                   ![j - 1] = Push(Push(@, block + 2 ^ (j - 1)), block)],
                 j - 1, class)

\* Heap::alloc(layout): [b: the allocator after, ok, addr]
Buddy_alloc(b, size, align) ==
    LET bsize == BuddySize(size, align)
        class == TrailingZeros(bsize)
        nonempty == { i \in class .. (BuddyOrder - 1) : b.free_list[i] # <<>> }
    IN  IF nonempty = {}
        THEN [b |-> b, ok |-> FALSE, addr |-> 0]
        ELSE LET i == CHOOSE x \in nonempty : \A y \in nonempty : x <= y
                 split == BuddySplit(b.free_list, i, class)
             IN  [ b |-> [b EXCEPT !.free_list = [split EXCEPT ![class] = Tail(@)],
                                   !.user = @ + size,
                                   !.allocated = @ + bsize],
                   ok |-> TRUE,
                   addr |-> Head(split[class]) ]

\* current_ptr ^ (1 << current_class)
BuddyOf(ptr, class) ==
    IF (ptr \div 2 ^ class) % 2 = 0 THEN ptr + 2 ^ class ELSE ptr - 2 ^ class

\* The merge loop of dealloc: current_ptr heads free_list[current_class]; while its
\* buddy is free too, both leave the list and the merged block enters the next one.
RECURSIVE BuddyMerge(_, _, _)
BuddyMerge(free_list, current_ptr, current_class) ==
    IF current_class >= BuddyOrder - 1
    THEN free_list
    ELSE LET buddy == BuddyOf(current_ptr, current_class)
             list == free_list[current_class]
             found == { i \in 1 .. Len(list) : list[i] = buddy }
         IN  IF found = {}
             THEN free_list
             ELSE LET i == CHOOSE x \in found : \A y \in found : x <= y
                      merged == Min(current_ptr, buddy)
                  IN  BuddyMerge(
                          [free_list EXCEPT
                              ![current_class] = Tail(RemoveAt(@, i)),
                              ![current_class + 1] = Push(@, merged)],
                          merged, current_class + 1)

\* Heap::dealloc(ptr, layout)
Buddy_dealloc(b, ptr, size, align) ==
    LET bsize == BuddySize(size, align)
        class == TrailingZeros(bsize)
        pushed == [b.free_list EXCEPT ![class] = Push(@, ptr)]
    IN  [b EXCEPT !.free_list = BuddyMerge(pushed, ptr, class),
                  !.user = @ - size,
                  !.allocated = @ - bsize]

\* Heap::stats_alloc_actual, Heap::stats_total_bytes
Buddy_stats_alloc_actual(b) == b.allocated
Buddy_stats_total_bytes(b) == b.total

----------------------------------------------------------------------------
\* Slab<BLK_SIZE> (mod slab, lib.rs:7): a free list of blocks of BLK_SIZE bytes,
\* last pushed first, and the number of blocks the slab was ever given.

SET_SIZE == 64
MIN_HEAP_SIZE == 32768

\* Slab::new(0, 0): no block
Slab_new == [free_block_list |-> <<>>, total_blocks |-> 0]

Slab_total_blocks(s) == s.total_blocks
Slab_used_blocks(s) == s.total_blocks - Len(s.free_block_list)

\* Slab::grow(start_addr, slab_size): the blocks of the range enter the free list,
\* the highest one last
Slab_grow(s, blk_size, start_addr, slab_size) ==
    LET num_of_blocks == slab_size \div blk_size
    IN  [ free_block_list |->
              [i \in 1 .. num_of_blocks |-> start_addr + (num_of_blocks - i) * blk_size]
                  \o s.free_block_list,
          total_blocks |-> s.total_blocks + num_of_blocks ]

\* Slab::allocate(layout, buddy): pop a free block; with none, take a chunk of
\* SET_SIZE blocks from the buddy tier, grow by it and pop.
\* [slab, buddy: after the call, ok, addr]
Slab_allocate(s, blk_size, b) ==
    IF s.free_block_list # <<>>
    THEN [ slab |-> [s EXCEPT !.free_block_list = Tail(@)], buddy |-> b,
           ok |-> TRUE, addr |-> Head(s.free_block_list) ]
    ELSE LET chunk == Buddy_alloc(b, SET_SIZE * blk_size, 4096)
             grown == Slab_grow(s, blk_size, chunk.addr, SET_SIZE * blk_size)
         IN  IF chunk.ok
             THEN [ slab |-> [grown EXCEPT !.free_block_list = Tail(@)], buddy |-> chunk.b,
                    ok |-> TRUE, addr |-> Head(grown.free_block_list) ]
             ELSE [ slab |-> s, buddy |-> b, ok |-> FALSE, addr |-> 0 ]

\* Slab::deallocate(ptr): the block heads the free list
Slab_deallocate(s, ptr) == [s EXCEPT !.free_block_list = Push(@, ptr)]

----------------------------------------------------------------------------
\* Heap (lib.rs:86-313)

\* enum HeapAllocator without BuddyAllocator, and the block size of each slab
SlabAllocators ==
    { "Slab64Bytes", "Slab128Bytes", "Slab256Bytes", "Slab512Bytes",
      "Slab1024Bytes", "Slab2048Bytes", "Slab4096Bytes", "Slab8192Bytes" }
BlockSize(a) ==
    CASE a = "Slab64Bytes" -> 64
      [] a = "Slab128Bytes" -> 128
      [] a = "Slab256Bytes" -> 256
      [] a = "Slab512Bytes" -> 512
      [] a = "Slab1024Bytes" -> 1024
      [] a = "Slab2048Bytes" -> 2048
      [] a = "Slab4096Bytes" -> 4096
      [] a = "Slab8192Bytes" -> 8192

\* Heap::layout_to_allocator
layout_to_allocator(size, align) ==
    IF size > 8192 THEN "BuddyAllocator"
    ELSE IF size <= 64 /\ align <= 64 THEN "Slab64Bytes"
    ELSE IF size <= 128 /\ align <= 128 THEN "Slab128Bytes"
    ELSE IF size <= 256 /\ align <= 256 THEN "Slab256Bytes"
    ELSE IF size <= 512 /\ align <= 512 THEN "Slab512Bytes"
    ELSE IF size <= 1024 /\ align <= 1024 THEN "Slab1024Bytes"
    ELSE IF size <= 2048 /\ align <= 2048 THEN "Slab2048Bytes"
    ELSE IF size <= 4096 /\ align <= 4096 THEN "Slab4096Bytes"
    ELSE "Slab8192Bytes"

\* The assert!s of Heap::new without the one on heap_size % MIN_HEAP_SIZE.
Heap_new_asserts_no_multiple(heap_start_addr, heap_size) ==
    /\ heap_start_addr % 4096 = 0
    /\ heap_size >= MIN_HEAP_SIZE

\* The assert!s of Heap::new
Heap_new_asserts(heap_start_addr, heap_size) ==
    /\ heap_start_addr % 4096 = 0
    /\ heap_size >= MIN_HEAP_SIZE
    /\ heap_size % MIN_HEAP_SIZE = 0

\* Heap::new that gives the buddy tier the end address where a size is meant: the
\* region handed over ends at heap_start_addr + (heap_start_addr + heap_size).
Heap_new_end_as_size(heap_start_addr, heap_size) ==
    [ slab |-> [a \in SlabAllocators |-> Slab_new],
      buddy |-> Buddy_add_to_heap(Buddy_new, heap_start_addr,
                                  heap_start_addr + (heap_start_addr + heap_size)) ]

\* Heap::new
Heap_new(heap_start_addr, heap_size) ==
    [ slab |-> [a \in SlabAllocators |-> Slab_new],
      buddy |-> Buddy_add_to_heap(Buddy_new, heap_start_addr, heap_start_addr + heap_size) ]

\* The assert!s of Heap::add_memory
Heap_add_memory_asserts(heap_start_addr, heap_size) ==
    /\ heap_start_addr % 4096 = 0
    /\ heap_size % 4096 = 0

\* Heap::add_memory that carves the region into blocks of the 4096-byte class
\* instead of handing it to the buddy tier.
add_memory_to_slab(h, heap_start_addr, heap_size) ==
    [h EXCEPT !.slab["Slab4096Bytes"] = Slab_grow(@, 4096, heap_start_addr, heap_size)]

\* Heap::add_memory
Heap_add_memory(h, heap_start_addr, heap_size) ==
    [h EXCEPT !.buddy = Buddy_add_to_heap(@, heap_start_addr, heap_start_addr + heap_size)]

\* Heap::allocate: [heap: after the call, ok, addr]
Heap_allocate(h, size, align) ==
    LET a == layout_to_allocator(size, align)
    IN  IF a = "BuddyAllocator"
        THEN LET r == Buddy_alloc(h.buddy, size, align)
             IN  [heap |-> [h EXCEPT !.buddy = r.b], ok |-> r.ok, addr |-> r.addr]
        ELSE LET r == Slab_allocate(h.slab[a], BlockSize(a), h.buddy)
             IN  [ heap |-> [h EXCEPT !.slab[a] = r.slab, !.buddy = r.buddy],
                   ok |-> r.ok, addr |-> r.addr ]

\* Heap::deallocate
Heap_deallocate(h, ptr, size, align) ==
    LET a == layout_to_allocator(size, align)
    IN  IF a = "BuddyAllocator"
        THEN [h EXCEPT !.buddy = Buddy_dealloc(@, ptr, size, align)]
        ELSE [h EXCEPT !.slab[a] = Slab_deallocate(@, ptr)]

\* Heap::usable_size: the granted size
Heap_usable_size(size, align) ==
    LET a == layout_to_allocator(size, align)
    IN  IF a = "BuddyAllocator" THEN size ELSE BlockSize(a)

\* Heap::total_bytes without the buddy tier's term.
total_bytes_slabs_only(h) ==
    Slab_total_blocks(h.slab["Slab64Bytes"]) * 64
        + Slab_total_blocks(h.slab["Slab128Bytes"]) * 128
        + Slab_total_blocks(h.slab["Slab256Bytes"]) * 256
        + Slab_total_blocks(h.slab["Slab512Bytes"]) * 512
        + Slab_total_blocks(h.slab["Slab1024Bytes"]) * 1024
        + Slab_total_blocks(h.slab["Slab2048Bytes"]) * 2048
        + Slab_total_blocks(h.slab["Slab4096Bytes"]) * 4096
        + Slab_total_blocks(h.slab["Slab8192Bytes"]) * 8192

\* Heap::total_bytes
Heap_total_bytes(h) ==
    Slab_total_blocks(h.slab["Slab64Bytes"]) * 64
        + Slab_total_blocks(h.slab["Slab128Bytes"]) * 128
        + Slab_total_blocks(h.slab["Slab256Bytes"]) * 256
        + Slab_total_blocks(h.slab["Slab512Bytes"]) * 512
        + Slab_total_blocks(h.slab["Slab1024Bytes"]) * 1024
        + Slab_total_blocks(h.slab["Slab2048Bytes"]) * 2048
        + Slab_total_blocks(h.slab["Slab4096Bytes"]) * 4096
        + Slab_total_blocks(h.slab["Slab8192Bytes"]) * 8192
        + Buddy_stats_total_bytes(h.buddy)

\* Heap::used_bytes
Heap_used_bytes(h) ==
    Slab_used_blocks(h.slab["Slab64Bytes"]) * 64
        + Slab_used_blocks(h.slab["Slab128Bytes"]) * 128
        + Slab_used_blocks(h.slab["Slab256Bytes"]) * 256
        + Slab_used_blocks(h.slab["Slab512Bytes"]) * 512
        + Slab_used_blocks(h.slab["Slab1024Bytes"]) * 1024
        + Slab_used_blocks(h.slab["Slab2048Bytes"]) * 2048
        + Slab_used_blocks(h.slab["Slab4096Bytes"]) * 4096
        + Buddy_stats_alloc_actual(h.buddy)

\* Heap::available_bytes
Heap_available_bytes(h) == Heap_total_bytes(h) - Heap_used_bytes(h)

----------------------------------------------------------------------------
\* LabByteAllocator (lib.rs:21-72)

\* The inputs tried.
\* Heap::new is given MIN_HEAP_SIZE bytes or MIN_HEAP_SIZE * 2^HeapShift bytes.
HeapShift == 5
\* At most MaxHeapOps calls are made on a LabByteAllocator.
MaxHeapOps == 4

HeapStarts == { 4096, 1048576 }
InitRegions ==
    { <<s, size>> : s \in HeapStarts, size \in { MIN_HEAP_SIZE, MIN_HEAP_SIZE * 2 ^ HeapShift } }
        \cup { <<1048576 + 2048, MIN_HEAP_SIZE>>,
               <<1048576, MIN_HEAP_SIZE \div 2>>,
               <<1048576, MIN_HEAP_SIZE + 4096>> }
AddRegions ==
    { <<268435456, 4096>>, <<536870912, MIN_HEAP_SIZE>>,
      <<268435456 + 2048, 4096>>, <<268435456, 2048>> }
HeapLayouts ==
    { [size |-> 32, align |-> 8],
      [size |-> 64, align |-> 64],
      [size |-> 300, align |-> 8],
      [size |-> 5000, align |-> 8],
      [size |-> 8, align |-> 16384],
      [size |-> 9000, align |-> 8],
      [size |-> MIN_HEAP_SIZE + 1, align |-> 8] }

EmptyHeap == [slab |-> [a \in SlabAllocators |-> Slab_new], buddy |-> Buddy_new]
\* Option<Heap>
None == [some |-> FALSE, heap |-> EmptyHeap]
Some(h) == [some |-> TRUE, heap |-> h]

HCall(op, res, ret, a1, a2) ==
    [ op |-> op, res |-> res, ret |-> ret, a1 |-> a1, a2 |-> a2,
      used_before |-> IF inner.some THEN Heap_used_bytes(inner.heap) ELSE 0 ]

\* LabByteAllocator::new
LabByteAllocator_new ==
    /\ inner = None
    /\ h_state = "running"
    /\ h_last = [op |-> "none", res |-> "none", ret |-> 0, a1 |-> 0, a2 |-> 0, used_before |-> 0]
    /\ live = {}
    /\ owned = {}
    /\ h_ops = 0

\* A failed assert! or unwrap: the call does not return.
HeapPanic(op, a1, a2) ==
    /\ h_state' = "panicked"
    /\ h_last' = HCall(op, "panic", 0, a1, a2)
    /\ UNCHANGED <<inner, live, owned, evars, qvars>>

\* BaseAllocator::init
LabByteAllocator_init(s, size) ==
    /\ h_state = "running"
    /\ h_ops < MaxHeapOps
    /\ h_ops' = h_ops + 1
    /\ IF ~Heap_new_asserts(s, size)
       THEN HeapPanic("init", s, size)
       ELSE /\ inner' = Some(Heap_new(s, size))
            /\ h_last' = HCall("init", "Ok", 0, s, size)
            /\ live' = {}
            /\ owned' = {<<s, size>>}
            /\ UNCHANGED <<h_state, evars, qvars>>

\* BaseAllocator::add_memory
LabByteAllocator_add_memory(s, size) ==
    /\ h_state = "running"
    /\ h_ops < MaxHeapOps
    /\ <<s, size>> \notin owned
    /\ h_ops' = h_ops + 1
    /\ IF ~inner.some \/ ~Heap_add_memory_asserts(s, size)
       THEN HeapPanic("add_memory", s, size)
       ELSE /\ inner' = Some(Heap_add_memory(inner.heap, s, size))
            /\ h_last' = HCall("add_memory", "Ok", 0, s, size)
            /\ owned' = owned \cup {<<s, size>>}
            /\ UNCHANGED <<h_state, live, evars, qvars>>

\* ByteAllocator::alloc
LabByteAllocator_alloc(size, align) ==
    LET r == Heap_allocate(inner.heap, size, align) IN
    /\ h_state = "running"
    /\ h_ops < MaxHeapOps
    /\ h_ops' = h_ops + 1
    /\ IF ~inner.some
       THEN HeapPanic("alloc", size, align)
       ELSE IF r.ok
       THEN /\ inner' = Some(r.heap)
            /\ h_last' = HCall("alloc", "Ok", r.addr, size, align)
            /\ live' = live \cup {[addr |-> r.addr, size |-> size, align |-> align]}
            /\ UNCHANGED <<h_state, owned, evars, qvars>>
       ELSE /\ inner' = Some(r.heap)
            /\ h_last' = HCall("alloc", "NoMemory", 0, size, align)
            /\ UNCHANGED <<h_state, live, owned, evars, qvars>>

\* ByteAllocator::dealloc
LabByteAllocator_dealloc(pos, size, align) ==
    /\ h_state = "running"
    /\ h_ops < MaxHeapOps
    /\ h_ops' = h_ops + 1
    /\ IF ~inner.some
       THEN HeapPanic("dealloc", size, align)
       ELSE /\ inner' = Some(Heap_deallocate(inner.heap, pos, size, align))
            /\ h_last' = HCall("dealloc", "Ok", pos, size, align)
            /\ live' = live \ {[addr |-> pos, size |-> size, align |-> align]}
            /\ UNCHANGED <<h_state, owned, evars, qvars>>

\* ByteAllocator::total_bytes
LabByteAllocator_total_bytes ==
    /\ h_state = "running"
    /\ h_ops < MaxHeapOps
    /\ h_ops' = h_ops + 1
    /\ IF ~inner.some
       THEN HeapPanic("total_bytes", 0, 0)
       ELSE /\ h_last' = HCall("total_bytes", "Ok", Heap_total_bytes(inner.heap), 0, 0)
            /\ UNCHANGED <<inner, h_state, live, owned, evars, qvars>>

\* ByteAllocator::used_bytes
LabByteAllocator_used_bytes ==
    /\ h_state = "running"
    /\ h_ops < MaxHeapOps
    /\ h_ops' = h_ops + 1
    /\ IF ~inner.some
       THEN HeapPanic("used_bytes", 0, 0)
       ELSE /\ h_last' = HCall("used_bytes", "Ok", Heap_used_bytes(inner.heap), 0, 0)
            /\ UNCHANGED <<inner, h_state, live, owned, evars, qvars>>

\* ByteAllocator::available_bytes
LabByteAllocator_available_bytes ==
    /\ h_state = "running"
    /\ h_ops < MaxHeapOps
    /\ h_ops' = h_ops + 1
    /\ IF ~inner.some
       THEN HeapPanic("available_bytes", 0, 0)
       ELSE /\ h_last' = HCall("available_bytes", "Ok", Heap_available_bytes(inner.heap), 0, 0)
            /\ UNCHANGED <<inner, h_state, live, owned, evars, qvars>>

\* What dealloc may be given: an allocation granted and not yet given back; any
\* argument is as good as another while there is no Heap.
Deallocatable ==
    IF inner.some THEN live ELSE {[addr |-> 4096, size |-> 32, align |-> 8]}

----------------------------------------------------------------------------
\* The layouts layout_to_allocator is asked about: the sizes around every block
\* size, and the alignments 2^0..2^MaxQueryAlignBits.
MaxQueryAlignBits == 14
QuerySizes ==
    { 0, 1, 9000 } \cup UNION { { BlockSize(a) - 1, BlockSize(a), BlockSize(a) + 1 } : a \in SlabAllocators }
QueryAligns == { 2 ^ k : k \in 0 .. MaxQueryAlignBits }

QueryInit ==
    /\ q_size = 0
    /\ q_align = 1
    /\ q_class = "none"

Query(size, align) ==
    /\ q_size' = size
    /\ q_align' = align
    /\ q_class' = layout_to_allocator(size, align)
    /\ UNCHANGED <<evars, hvars>>

----------------------------------------------------------------------------
\* Specifications

EarlyNext ==
    \/ \E r \in Regions : EarlyAllocator_init(r.start, r.size)
    \/ \E r \in Regions : EarlyAllocator_add_memory(r.start, r.size)
    \/ \E l \in Layouts : EarlyAllocator_alloc(l.size, l.align)
    \/ \E pos \in Positions, l \in Layouts : EarlyAllocator_dealloc(pos, l.size, l.align)
    \/ \E n \in PageCounts, a \in Aligns : EarlyAllocator_alloc_pages(n, a)
    \/ \E pos \in Positions, n \in PageCounts : EarlyAllocator_dealloc_pages(pos, n)

\* The EarlyAllocator in either build, beside an unused LabByteAllocator; no
\* history of the grants is kept.
EarlyInit ==
    /\ EarlyAllocator_new
    /\ overflow_checks \in BOOLEAN
    /\ grant_cap = 0
    /\ LabByteAllocator_new
    /\ QueryInit

EarlySpec == EarlyInit /\ [][EarlyNext]_vars

\* The history keeps the first MaxGrants grants.
MaxGrants == 1

\* The EarlyAllocator in either build, with the history of its first grants.
GrantInit ==
    /\ EarlyAllocator_new
    /\ overflow_checks \in BOOLEAN
    /\ grant_cap = MaxGrants
    /\ LabByteAllocator_new
    /\ QueryInit

\* The calls of EarlyNext; dealloc and dealloc_pages are given what the last
\* call was given and returned.
GrantNext ==
    \/ \E r \in Regions : EarlyAllocator_init(r.start, r.size)
    \/ \E r \in Regions : EarlyAllocator_add_memory(r.start, r.size)
    \/ \E l \in Layouts : EarlyAllocator_alloc(l.size, l.align)
    \/ EarlyAllocator_dealloc(e_last.ret, e_last.a1, e_last.a2)
    \/ \E n \in PageCounts, a \in Aligns : EarlyAllocator_alloc_pages(n, a)
    \/ EarlyAllocator_dealloc_pages(e_last.ret, e_last.a1)

GrantSpec == GrantInit /\ [][GrantNext]_vars

HeapNext ==
    \/ \E r \in InitRegions : LabByteAllocator_init(r[1], r[2])
    \/ \E r \in AddRegions : LabByteAllocator_add_memory(r[1], r[2])
    \/ \E l \in HeapLayouts : LabByteAllocator_alloc(l.size, l.align)
    \/ \E x \in Deallocatable : LabByteAllocator_dealloc(x.addr, x.size, x.align)
    \/ LabByteAllocator_total_bytes
    \/ LabByteAllocator_used_bytes
    \/ LabByteAllocator_available_bytes

\* The LabByteAllocator, beside an unused EarlyAllocator.
HeapInit ==
    /\ EarlyAllocator_new
    /\ overflow_checks = FALSE
    /\ grant_cap = 0
    /\ LabByteAllocator_new
    /\ QueryInit

HeapSpec == HeapInit /\ [][HeapNext]_vars

QueryNext == \E size \in QuerySizes, align \in QueryAligns : Query(size, align)

QuerySpec == HeapInit /\ [][QueryNext]_vars

----------------------------------------------------------------------------
\* Claims about EarlyAllocator, checked under EarlySpec.

\* C1: after init, in every reachable state, start <= b_pos <= p_pos <= end.
C1_CursorOrder ==
    e_state # "new" => (start <= b_pos /\ b_pos <= p_pos /\ p_pos <= end)

\* C2: after init, no step decreases b_pos and no step increases p_pos.
C2_MonotonicCursors ==
    [][e_state = "ready" => (b_pos' >= b_pos /\ p_pos' <= p_pos)]_vars

\* C3: alloc(layout) succeeds iff AlignUp(b_pos, align) + size <= p_pos; on success
\* it returns the aligned address and sets b_pos to its end, leaving p_pos, start
\* and end alone; otherwise it returns NoMemory.
C3_AllocContract ==
    [][e_last'.op = "alloc" =>
        LET aligned_start == AlignUp(b_pos, e_last'.a2)
            size == e_last'.a1
        IN  IF aligned_start + size <= p_pos
            THEN /\ e_last'.res = "Ok"
                 /\ e_last'.ret = aligned_start
                 /\ e_last'.ret % e_last'.a2 = 0
                 /\ e_last'.ret >= b_pos
                 /\ b_pos' = aligned_start + size
                 /\ UNCHANGED <<p_pos, start, end>>
            ELSE e_last'.res = "NoMemory"]_vars

\* C4: alloc_pages(num_pages, align) succeeds iff p_pos - num_pages * PAGE_SIZE >= b_pos
\* over the integers; on success it returns that address and sets p_pos to it,
\* leaving b_pos, start and end alone; otherwise it returns NoMemory.
C4_AllocPagesContract ==
    [][e_last'.op = "alloc_pages" =>
        LET candidate == p_pos - e_last'.a1 * PAGE_SIZE
        IN  IF candidate >= b_pos
            THEN /\ e_last'.res = "Ok"
                 /\ e_last'.ret = candidate
                 /\ p_pos' = candidate
                 /\ UNCHANGED <<b_pos, start, end>>
            ELSE e_last'.res = "NoMemory"]_vars

\* C5: after init, total_bytes() = used_bytes() + available_bytes() and no
\* subtraction of the three underflows.
C5_StatsIdentity ==
    e_state # "new" =>
        /\ ~EarlyStatsOverflow
        /\ EarlyAllocator_total_bytes = EarlyAllocator_used_bytes + EarlyAllocator_available_bytes

\* C6: add_memory returns NoMemory for every input in every state, does not
\* panic, and leaves start, end, b_pos and p_pos unchanged.
C6_AddMemoryUnsupported ==
    [][e_last'.op = "add_memory" =>
        /\ e_last'.res = "NoMemory"
        /\ e_state' = e_state
        /\ UNCHANGED <<start, end, b_pos, p_pos>>]_vars

\* add_memory was called after memory was handed out from both ends.
C6_Witness ==
    /\ e_last.op = "add_memory"
    /\ e_last.res = "NoMemory"
    /\ e_state = "ready"
    /\ start < b_pos
    /\ p_pos < end

----------------------------------------------------------------------------
\* Claims about Heap::layout_to_allocator, checked under QuerySpec.

\* The sub-allocators that can hold a layout: the slabs whose block size is at
\* least its size and its alignment.
Fitting(size, align) ==
    { a \in SlabAllocators : size <= BlockSize(a) /\ align <= BlockSize(a) }

\* C7: a layout of at most 8192 bytes, of any power-of-two alignment, is given
\* the smallest slab whose block size is at least its size and its alignment;
\* a layout of more than 8192 bytes is given the buddy tier.
C7_Classification ==
    q_class # "none" =>
        IF q_size > 8192
        THEN q_class = "BuddyAllocator"
        ELSE /\ q_class \in Fitting(q_size, q_align)
             /\ \A a \in Fitting(q_size, q_align) : BlockSize(q_class) <= BlockSize(a)

----------------------------------------------------------------------------
\* Claims about Heap, checked under HeapSpec.

\* C8: every address a successful allocate(layout) returns is a multiple of
\* layout.align.
C8_Alignment ==
    (h_last.op = "alloc" /\ h_last.res = "Ok") => h_last.ret % h_last.a2 = 0

\* C9: for a layout with size <= 8192 and align <= size, a successful allocate
\* followed at once by deallocate of the address it returned, with the same
\* layout, leaves used_bytes() as it was before the two calls.
C9_RoundTrip ==
    [][ ( /\ h_last.op = "alloc" /\ h_last.res = "Ok"
          /\ h_last.a1 <= 8192 /\ h_last.a2 <= h_last.a1
          /\ h_last'.op = "dealloc" /\ h_last'.res = "Ok"
          /\ h_last'.ret = h_last.ret
          /\ h_last'.a1 = h_last.a1 /\ h_last'.a2 = h_last.a2 )
        => Heap_used_bytes(inner'.heap) = h_last.used_before ]_vars

\* The bytes in use in all nine sub-allocators.
RECURSIVE SlabBytesUsed(_, _)
SlabBytesUsed(h, as) ==
    IF as = {}
    THEN 0
    ELSE LET a == CHOOSE x \in as : TRUE
         IN  Slab_used_blocks(h.slab[a]) * BlockSize(a) + SlabBytesUsed(h, as \ {a})

\* C10: used_bytes() is the sum over the eight slabs of used_blocks * block size,
\* plus the bytes allocated in the buddy tier.
C10_UsedBytesAggregates ==
    inner.some =>
        Heap_used_bytes(inner.heap)
            = SlabBytesUsed(inner.heap, SlabAllocators) + Buddy_stats_alloc_actual(inner.heap.buddy)

\* C11: in every state reached from Heap::new by allocate, matching deallocate and
\* add_memory calls, used_bytes() <= total_bytes(), so that the subtraction of
\* available_bytes() does not underflow, and total_bytes() is used_bytes() plus
\* available_bytes(); the statistics calls return these values.
C11_HeapStatistics ==
    /\ inner.some =>
          /\ Heap_used_bytes(inner.heap) <= Heap_total_bytes(inner.heap)
          /\ Heap_available_bytes(inner.heap) >= 0
          /\ Heap_total_bytes(inner.heap)
                = Heap_used_bytes(inner.heap) + Heap_available_bytes(inner.heap)
    /\ (h_last.op = "total_bytes" /\ h_last.res = "Ok") =>
          h_last.ret = Heap_used_bytes(inner.heap) + Heap_available_bytes(inner.heap)
    /\ (h_last.op = "used_bytes" /\ h_last.res = "Ok") =>
          h_last.ret <= Heap_total_bytes(inner.heap)
    /\ (h_last.op = "available_bytes" /\ h_last.res = "Ok") =>
          h_last.ret = Heap_total_bytes(inner.heap) - Heap_used_bytes(inner.heap)

\* A block was given back while another is still in use.
C11_Witness ==
    /\ inner.some
    /\ h_last.op = "dealloc"
    /\ live # {}
    /\ Heap_used_bytes(inner.heap) > 0
    /\ Heap_used_bytes(inner.heap) < Heap_total_bytes(inner.heap)
\* The bytes handed to the Heap by init and add_memory.
RECURSIVE SumSizes(_)
SumSizes(regions) ==
    IF regions = {} THEN 0
    ELSE LET r == CHOOSE x \in regions : TRUE
         IN  r[2] + SumSizes(regions \ {r})
OwnedBytes == SumSizes(owned)

\* C12: a request of more than 8192 bytes is routed to the buddy tier, and one
\* larger than all the memory the Heap was given fails with NoMemory; so does
\* allocate(MIN_HEAP_SIZE + 1) as the first call on a Heap of MIN_HEAP_SIZE bytes.
C12_ExhaustionBoundary ==
    (h_last.op = "alloc" /\ h_last.res # "panic" /\ h_last.a1 > 8192) =>
        /\ layout_to_allocator(h_last.a1, h_last.a2) = "BuddyAllocator"
        /\ h_last.a1 > OwnedBytes => h_last.res = "NoMemory"
        /\ h_last.a1 > Heap_total_bytes(inner.heap) => h_last.res = "NoMemory"

\* allocate(MIN_HEAP_SIZE + 1) was the first call after Heap::new(_, MIN_HEAP_SIZE).
C12_Witness ==
    /\ h_ops = 2
    /\ h_last.op = "alloc"
    /\ h_last.a1 = MIN_HEAP_SIZE + 1
    /\ h_last.res = "NoMemory"
    /\ OwnedBytes = MIN_HEAP_SIZE
    /\ Heap_total_bytes(inner.heap) = MIN_HEAP_SIZE
    /\ Heap_used_bytes(inner.heap) = 0
\* C13: the LabByteAllocator comes to hold a Heap only through init; once it holds
\* one, no call takes it away or replaces it, a second init included: after such
\* an init the Heap, its statistics and the outstanding allocations are as before,
\* and every other call keeps the allocations it was not asked to give back.
C13_Lifecycle ==
    [][ /\ (~inner.some /\ inner'.some) => h_last'.op = "init"
        /\ inner.some => inner'.some
        /\ (inner.some /\ h_last'.op = "init") =>
              /\ inner' = inner
              /\ live' = live
              /\ Heap_used_bytes(inner'.heap) = Heap_used_bytes(inner.heap)
              /\ Heap_total_bytes(inner'.heap) = Heap_total_bytes(inner.heap)
        /\ (inner.some /\ h_last'.op # "dealloc") => live \subseteq live' ]_vars
\* C14: a successful allocate of a layout routed to a slab class increases
\* used_bytes() by exactly the capacity of that class, the granted size of
\* usable_size, also when the class first has to grow from the buddy tier.
C14_SlabAccounting ==
    [][ ( /\ h_last'.op = "alloc"
          /\ h_last'.res = "Ok"
          /\ layout_to_allocator(h_last'.a1, h_last'.a2) # "BuddyAllocator" )
        => Heap_used_bytes(inner'.heap)
             = Heap_used_bytes(inner.heap) + Heap_usable_size(h_last'.a1, h_last'.a2) ]_vars

\* C15: a successful allocate of a layout of more than 8192 bytes is served by
\* the buddy tier and increases used_bytes() by exactly the requested size.
C15_BuddyAccounting ==
    [][ (h_last'.op = "alloc" /\ h_last'.res = "Ok" /\ h_last'.a1 > 8192) =>
          /\ layout_to_allocator(h_last'.a1, h_last'.a2) = "BuddyAllocator"
          /\ Heap_used_bytes(inner'.heap) = Heap_used_bytes(inner.heap) + h_last'.a1 ]_vars

\* C16: add_memory(start, size) with start and size multiples of 4096, on an
\* allocator that holds a Heap, returns success and extends only the buddy tier:
\* total_blocks and used_blocks of the eight slab classes and used_bytes() are
\* unchanged, and total_bytes() grows by size.
C16_AddMemoryFrame ==
    [][ ( /\ h_last'.op = "add_memory"
          /\ inner.some
          /\ h_last'.a1 % 4096 = 0
          /\ h_last'.a2 % 4096 = 0 )
        => /\ h_last'.res = "Ok"
           /\ h_state' = "running"
           /\ \A a \in SlabAllocators :
                 /\ Slab_total_blocks(inner'.heap.slab[a]) = Slab_total_blocks(inner.heap.slab[a])
                 /\ Slab_used_blocks(inner'.heap.slab[a]) = Slab_used_blocks(inner.heap.slab[a])
           /\ Heap_used_bytes(inner'.heap) = Heap_used_bytes(inner.heap)
           /\ Heap_total_bytes(inner'.heap) = Heap_total_bytes(inner.heap) + h_last'.a2
           /\ live' = live ]_vars

\* add_memory succeeded on a Heap whose slab classes have grown and hold blocks in use.
C16_Witness ==
    /\ h_last.op = "add_memory"
    /\ h_last.res = "Ok"
    /\ h_last.a2 = MIN_HEAP_SIZE
    /\ live # {}
    /\ \E a \in SlabAllocators : Slab_used_blocks(inner.heap.slab[a]) > 0
    /\ Heap_total_bytes(inner.heap) > OwnedBytes
\* C17: a violated precondition aborts the call. init aborts when start is not a
\* multiple of 4096, when size < 0x8000 or when size is not a multiple of 0x8000;
\* add_memory aborts when start or size is not a multiple of 4096; alloc,
\* dealloc, add_memory, total_bytes, used_bytes and available_bytes abort on an
\* allocator that holds no Heap. The call returns nothing, neither a result nor
\* NoMemory, and no Heap is created or modified.
C17_FatalPreconditions ==
    [][ LET op == h_last'.op
            abort == /\ h_last'.res = "panic"
                     /\ h_state' = "panicked"
                     /\ inner' = inner
                     /\ live' = live
        IN  /\ ( /\ op = "init"
                 /\ \/ h_last'.a1 % 4096 # 0
                    \/ h_last'.a2 < 32768
                    \/ h_last'.a2 % 32768 # 0 ) => abort
            /\ ( /\ op = "add_memory"
                 /\ \/ h_last'.a1 % 4096 # 0
                    \/ h_last'.a2 % 4096 # 0 ) => abort
            /\ ( /\ ~inner.some
                 /\ op \in { "alloc", "dealloc", "add_memory",
                              "total_bytes", "used_bytes", "available_bytes" } ) => abort
            /\ h_state = "panicked" => UNCHANGED hvars ]_vars

\* add_memory was given a start that is not a multiple of 4096 and aborted; the
\* Heap holds an allocation.
C17_Witness ==
    /\ h_state = "panicked"
    /\ h_last.op = "add_memory"
    /\ h_last.res = "panic"
    /\ h_last.a1 % 4096 # 0
    /\ inner.some
    /\ live # {}
\* The region [addr, addr + size) shares no address with a region granted before.
Fresh(addr, size) ==
    \A g \in granted : Region(g[1], g[2]) \cap Region(addr, size) = {}

\* C19: the region a successful alloc grants lies inside [start, b_pos), the
\* region a successful alloc_pages grants lies inside [p_pos, end), and a granted
\* region of non-zero size overlaps no region of non-zero size granted before.
C19_NonOverlap ==
    [][ /\ (e_last'.op = "alloc" /\ e_last'.res = "Ok") =>
              /\ start' <= e_last'.ret
              /\ e_last'.ret + e_last'.a1 <= b_pos'
              /\ e_last'.a1 > 0 => Fresh(e_last'.ret, e_last'.a1)
        /\ (e_last'.op = "alloc_pages" /\ e_last'.res = "Ok") =>
              /\ p_pos' <= e_last'.ret
              /\ e_last'.ret + e_last'.a1 * PAGE_SIZE <= end'
              /\ e_last'.a1 > 0 => Fresh(e_last'.ret, e_last'.a1 * PAGE_SIZE) ]_vars
C20_FailureAtomicity ==
    [][ /\ (e_last'.res = "NoMemory" /\ e_last'.op \in {"alloc", "alloc_pages"}) =>
              /\ UNCHANGED <<start, end, b_pos, p_pos>>
              /\ e_state' = e_state
        /\ ( /\ e_last.res = "NoMemory"
             /\ e_last.op = "alloc"
             /\ e_last'.op = "alloc"
             /\ e_last'.a2 = e_last.a2
             /\ e_last'.a1 < e_last.a1
             /\ AlignUp(b_pos, e_last'.a2) + e_last'.a1 <= p_pos ) =>
              /\ e_last'.res = "Ok"
              /\ e_last'.ret = AlignUp(b_pos, e_last'.a2)
        /\ ( /\ e_last.res = "NoMemory"
             /\ e_last.op = "alloc_pages"
             /\ e_last'.op = "alloc_pages"
             /\ e_last'.a1 < e_last.a1
             /\ b_pos + e_last'.a1 * PAGE_SIZE <= p_pos ) =>
              /\ e_last'.res = "Ok"
              /\ e_last'.ret = p_pos - e_last'.a1 * PAGE_SIZE ]_vars

\* alloc returned NoMemory with b_pos short of the aligned address, and a smaller
\* request of the same alignment fits the gap.
C20_Witness ==
    /\ e_last.op = "alloc"
    /\ e_last.res = "NoMemory"
    /\ b_pos < AlignUp(b_pos, e_last.a2)
    /\ \E l \in Layouts :
          /\ l.align = e_last.a2
          /\ 0 < l.size
          /\ l.size < e_last.a1
          /\ AlignUp(b_pos, l.align) + l.size <= p_pos
=============================================================================
